---- MODULE Spec2Model ----
(***************************************************************************)
(* Token-gated verification pipeline of stoney-baloney-verify.            *)
(*                                                                         *)
(* The repository holds eleven variants of the upload handler              *)
(* (/api/verify) and two variants of the Discord interactions handler.    *)
(* Every handler is a sequence of steps separated by awaits; the token     *)
(* table (verification_tokens), the webhook endpoint and the Discord role  *)
(* API are shared with every other request in flight.  One action of this  *)
(* module is the code of one handler between two awaits that touch the     *)
(* shared world.                                                           *)
(***************************************************************************)
EXTENDS Integers, Sequences, FiniteSets, TLC

VARIABLES
    now,    \* Date.now(), in abstract milliseconds since the epoch (> 0)
    rows,   \* table verification_tokens: token -> row
    req     \* requests in flight or answered, one per slot

vars == <<now, rows, req>>

----------------------------------------------------------------------------
(* Bounds of the model *)

\* The clock runs from 1 to MaxTime.
MaxTime == 2

----------------------------------------------------------------------------
(* Values *)

\* JavaScript null / undefined.
NULL == "null"

\* Tokens that have a row in verification_tokens, and one that has none.
Tokens == {"t1"}
UnknownToken == "zz"

\* Concurrent invocations of the serverless functions.
Slots == {"a", "b"}

\* The handlers of the repository, by the file (and position in it) that holds them.
UploadVariants ==
    { "verify_1", "verify_2", "interactions_2", "part_001", "part_002_1",
      "part_002_2", "part_003", "part_004_1", "part_004_2", "part_005", "part_006" }

InteractVariants == { "interactions_1", "part_000" }

Times == 1..MaxTime

\* new Date().toISOString(): the textual form of a time.
toISOString(t) == ToString(t)

\* new Date(x).getTime(): null is the epoch, an unparsable string is NaN.
getTime(x) ==
    IF x = NULL THEN [nan |-> FALSE, ms |-> 0]
    ELSE IF \E t \in 0..(MaxTime + 1) : toISOString(t) = x
         THEN [nan |-> FALSE, ms |-> CHOOSE t \in 0..(MaxTime + 1) : toISOString(t) = x]
         ELSE [nan |-> TRUE, ms |-> 0]

\* Number.isFinite(expMs)
isFinite(x) == ~x.nan

\* An expiry test that also rejects at the instant of expiry.
NowAtOrAfter(t, x) == ~x.nan /\ t >= x.ms

\* Date.now() > expMs; every comparison with NaN is false.
NowAfter(t, x) == ~x.nan /\ t > x.ms

\* A range test that lets the redirects through.
IsSuccess_Below400(status) == status >= 200 /\ status < 400

\* res.ok of fetch, and the explicit range test of the https.request variants.
IsSuccess(status) == status >= 200 /\ status < 300

----------------------------------------------------------------------------
(* The token table *)

\* A row as the bot that issues tokens inserts it: not decided, not submitted.
\* The handlers themselves guard against a row with no webhook_url, no
\* user_id, no expires_at or an unparsable one.
IssuedRow(hook, user, exp) ==
    [ webhook_url |-> hook, user_id |-> user, expires_at |-> exp,
      used |-> FALSE, decision |-> NULL, decided_at |-> NULL, decided_by |-> NULL,
      submitted |-> FALSE, submitted_at |-> NULL, ai_status |-> NULL,
      doc_type |-> NULL ]

\* A token that expires at time 1, and the rows that lack one column or hold
\* an unparsable expiry.
IssuedRows ==
    { IssuedRow("hook", "u1", toISOString(1)),
      IssuedRow(NULL, "u1", toISOString(1)),
      IssuedRow("hook", NULL, toISOString(1)),
      IssuedRow("hook", "u1", NULL),
      IssuedRow("hook", "u1", "garbage") }

\* supabase.from("verification_tokens").select(...).eq("token", t).single():
\* the row, or an error when the call fails or no row has the token.
SelectSingle(table, t, dbOk) ==
    IF dbOk /\ t \in DOMAIN table
    THEN [error |-> FALSE, data |-> table[t]]
    ELSE [error |-> TRUE, data |-> IssuedRow(NULL, NULL, NULL)]

\* supabase.from("verification_tokens").update(patch).eq("token", t): the
\* fields of patch replace the row's; a failed call or an unknown token
\* changes nothing.  The client reports a failure in its result, which no
\* handler reads; it does not throw.
UpdateRow(table, t, patch, dbOk) ==
    IF dbOk /\ t \in DOMAIN table
    THEN [table EXCEPT ![t] =
            [f \in DOMAIN table[t] |->
                IF f \in DOMAIN patch THEN patch[f] ELSE table[t][f]]]
    ELSE table

----------------------------------------------------------------------------
(* Requests *)

\* A response: res.status(status) and the payload; type is the Discord
\* interaction response type (0 for the upload handlers).
Response(status, type, text) == [status |-> status, type |-> type, text |-> text]

\* One step a request took against the shared world, in the order taken.
\*   op     "lookup" | "check" | "post" | "update" | "grant"
\*   name   what was checked, which role was granted
\*   code   the status the webhook or the role API answered (0: none)
\*   ok     the call succeeded
\*   fields the columns an update wrote
\*   used   the row's used flag in the table at the moment of the step
\*   at     Date.now() at the moment of the step
Event(op, name, code, ok, fields, used, at) ==
    [ op |-> op, name |-> name, code |-> code, ok |-> ok, fields |-> fields,
      used |-> used, at |-> at ]

Idle ==
    [ v |-> NULL, pc |-> "idle", in |-> NULL, token |-> NULL, hook |-> NULL,
      action |-> NULL, user_id |-> NULL, staff |-> NULL, s1 |-> 0,
      tempPath |-> FALSE, disk |-> "none", late |-> FALSE,
      log |-> <<>>, resp |-> <<>> ]

Off == [Idle EXCEPT !.pc = "off"]

\* A slot can take a new request when it holds none.
Free(r) == r.pc = "idle"

\* The request is over: answered, or ended by an exception nothing caught.
Over(r) == r.pc \in {"done", "crashed"}

IsUpload(r) == r.v \in UploadVariants
IsInteract(r) == r.v \in InteractVariants

\* The row's used flag as the table holds it now (FALSE for an unknown token).
UsedNow(t) == t \in DOMAIN rows /\ rows[t].used

\* A return path that sends its response twice.
Finish_Twice(r, response) ==
    [r EXCEPT !.pc = "done",
              !.resp = Append(Append(@, response), response),
              !.disk = IF r.tempPath /\ r.disk = "stored" THEN "deleted" ELSE @]

\* return res.status(...).json(...): the request is answered; the finally
\* block of the upload handlers unlinks the temp file they recorded.
Finish(r, response) ==
    [r EXCEPT !.pc = "done",
              !.resp = Append(@, response),
              !.disk = IF r.tempPath /\ r.disk = "stored" THEN "deleted" ELSE @]

Log(r, e) == [r EXCEPT !.log = Append(@, e)]

----------------------------------------------------------------------------
(* The upload handlers *)

\* What distinguishes the variants.
EnvCheckAfterParse(v) == v = "part_003"
ParseErrorThrows(v) == v = "verify_2"
ChecksFetch(v) == v = "interactions_2"
ChecksSize(v) == v \in {"verify_2", "part_006"}
ChecksMime(v) == v = "part_002_1"
RecordsTempPath(v) == v # "part_003"
HookCheckedFirst(v) == v \in {"verify_2", "part_005", "part_006"}
HookCheckedLast(v) == v = "part_002_1"
GuardsNullExpiry(v) == v # "part_003"
PostsTwice(v) == v = "part_002_2"
BodyReadThrows(v) == v = "part_005"

UsedText(v) ==
    IF v \in {"part_002_2", "part_003", "part_004_1"}
    THEN "Token already used" ELSE "Token already decided"

RejectedText(v, pc) ==
    IF pc = "post2" THEN "Discord rejected decision message"
    ELSE IF v = "part_004_1" THEN "Webhook post failed"
    ELSE IF v = "part_005" THEN "Discord webhook rejected message"
    ELSE "Discord rejected webhook"

\* The catch block of the handler.
InternalError(v) ==
    Response(500, 0, IF v = "part_004_1" THEN "e.message" ELSE "Internal server error")

MissingEnv(v) ==
    Response(500, 0, IF v = "part_004_1" THEN "Missing Supabase env vars"
                     ELSE IF v = "part_005" THEN "Missing SUPABASE env vars"
                     ELSE "Server missing Supabase env vars")

ParseError(v) ==
    Response(400, 0, IF v = "part_004_1" THEN "Form parse error"
                     ELSE IF v = "part_006" THEN "Bad upload payload (maybe too large)"
                     ELSE "Bad upload payload")

NoResponse == Response(0, 0, "")

\* The handler from its entry to the token lookup: the response it returns
\* early, or NoResponse when it goes on to look the token up.
UploadEntry(v, i) ==
    IF i.method = "OPTIONS" THEN Response(204, 0, "")
    ELSE IF i.method # "POST" THEN Response(405, 0, "Method not allowed")
    ELSE IF ~EnvCheckAfterParse(v) /\ ~i.env THEN MissingEnv(v)
    ELSE IF ChecksFetch(v) /\ ~i.fetch THEN Response(500, 0, "Server missing fetch()")
    ELSE IF i.err /\ ParseErrorThrows(v) THEN InternalError(v)
    ELSE IF i.err THEN ParseError(v)
    ELSE IF i.token = NULL THEN Response(400, 0, "Missing token")
    ELSE IF i.file = NULL THEN Response(400, 0, "Missing file")
    ELSE IF EnvCheckAfterParse(v) /\ ~i.env THEN MissingEnv(v)
    ELSE IF ChecksSize(v) /\ i.file = "big" THEN Response(413, 0, "File too large (max 4MB)")
    ELSE IF ChecksMime(v) /\ i.file = "pdf" THEN Response(400, 0, "File must be an image")
    ELSE NoResponse

\* form.parse ran and handed the handler the fields and files.
Parsed(v, i) ==
    /\ i.method = "POST"
    /\ EnvCheckAfterParse(v) \/ i.env
    /\ ChecksFetch(v) => i.fetch
    /\ ~i.err

\* tempPath = file.filepath was reached.
TempPathSet(v, i) ==
    Parsed(v, i) /\ RecordsTempPath(v) /\ i.token # NULL /\ i.file # NULL

\* A gate that does not look at the used flag.
UploadGate_IgnoresUsed(v, res, t) ==
    LET row == res.data
        expMs == getTime(row.expires_at)
    IN  IF res.error THEN Response(400, 0, "Invalid token")
        ELSE IF HookCheckedFirst(v) /\ row.webhook_url = NULL
             THEN Response(400, 0, "Token missing webhook_url")
        ELSE IF /\ GuardsNullExpiry(v) => row.expires_at # NULL
                /\ isFinite(expMs)
                /\ NowAfter(t, expMs)
             THEN Response(400, 0, "Token expired")
        ELSE IF HookCheckedLast(v) /\ row.webhook_url = NULL
             THEN Response(500, 0, "Token row missing webhook_url")
        ELSE IF row.webhook_url = NULL THEN InternalError(v)
        ELSE NoResponse

\* The checks on the looked-up row, in the variant's order: the response the
\* handler returns, or NoResponse when the row passes.
UploadGate(v, res, t) ==
    LET row == res.data
        expMs == getTime(row.expires_at)
    IN  IF res.error THEN Response(400, 0, "Invalid token")
        ELSE IF HookCheckedFirst(v) /\ row.webhook_url = NULL
             THEN Response(400, 0, "Token missing webhook_url")
        ELSE IF row.used THEN Response(400, 0, UsedText(v))
        ELSE IF /\ GuardsNullExpiry(v) => row.expires_at # NULL
                /\ isFinite(expMs)
                /\ NowAfter(t, expMs)
             THEN Response(400, 0, "Token expired")
        ELSE IF HookCheckedLast(v) /\ row.webhook_url = NULL
             THEN Response(500, 0, "Token row missing webhook_url")
        ELSE IF row.webhook_url = NULL THEN InternalError(v)
        ELSE NoResponse

\* The columns the variant writes after the webhook accepted the post.
UploadPatch(v, i, t) ==
    IF v = "part_003" THEN [used |-> TRUE]
    ELSE IF v = "part_005"
    THEN [ submitted |-> TRUE, submitted_at |-> toISOString(t),
           ai_status |-> i.status, doc_type |-> i.doc_type ]
    ELSE [ submitted |-> TRUE, submitted_at |-> toISOString(t), ai_status |-> i.status ]

\* What the webhook endpoint can do with a post: no answer at all (a network
\* error or a timeout), or a status whose body can or cannot be read.
WebhookOutcomes ==
    { [neterr |-> TRUE, status |-> 0, bodyErr |-> FALSE] }
    \cup [neterr : {FALSE}, status : {200, 299, 300, 500}, bodyErr : BOOLEAN]

\* handler, from its entry to the first await on the token table.
UploadReceive(s, v, i) ==
    /\ Free(req[s])
    /\ LET early == UploadEntry(v, i)
           r == [Idle EXCEPT !.v = v, !.in = i, !.token = i.token,
                             !.late = UsedNow(i.token),
                             !.tempPath = TempPathSet(v, i),
                             !.disk = IF Parsed(v, i) /\ i.file # NULL
                                      THEN "stored" ELSE "none"]
       IN  req' = [req EXCEPT ![s] =
                     IF early = NoResponse THEN [r EXCEPT !.pc = "lookup"]
                     ELSE Finish(r, early)]
    /\ UNCHANGED <<now, rows>>

\* The select returns; the handler checks the row up to the webhook post.
UploadLookup(s) ==
    /\ req[s].pc = "lookup" /\ IsUpload(req[s])
    /\ \E dbOk \in BOOLEAN :
         LET r == req[s]
             res == SelectSingle(rows, r.token, dbOk)
             gate == UploadGate(r.v, res, now)
             r1 == Log(r, Event("lookup", r.token, 0, ~res.error, {}, UsedNow(r.token), now))
             r2 == IF res.error THEN r1
                   ELSE Log(r1, Event("check", gate.text, 0, gate = NoResponse, {},
                                      UsedNow(r.token), now))
         IN  req' = [req EXCEPT ![s] =
                       IF gate = NoResponse
                       THEN [r2 EXCEPT !.pc = "post", !.hook = res.data.webhook_url]
                       ELSE Finish(r2, gate)]
    /\ UNCHANGED <<now, rows>>

\* The webhook answers the post (or does not).
UploadWebhook(s) ==
    /\ req[s].pc \in {"post", "post2"} /\ IsUpload(req[s])
    /\ \E out \in WebhookOutcomes :
         LET r == req[s]
             r1 == Log(r, Event("post", r.hook, out.status,
                                ~out.neterr /\ IsSuccess(out.status), {},
                                UsedNow(r.token), now))
         IN  req' = [req EXCEPT ![s] =
                       IF out.neterr THEN Finish(r1, InternalError(r.v))
                       ELSE IF BodyReadThrows(r.v) /\ out.bodyErr
                       THEN Finish(r1, InternalError(r.v))
                       ELSE IF ~IsSuccess(out.status)
                       THEN Finish(r1, Response(502, 0, RejectedText(r.v, r.pc)))
                       ELSE IF PostsTwice(r.v) /\ r.pc = "post"
                       THEN [r1 EXCEPT !.pc = "post2"]
                       ELSE IF PostsTwice(r.v)
                       THEN Finish(r1, Response(200, 0, "success"))
                       ELSE [r1 EXCEPT !.pc = "update"]]
    /\ UNCHANGED <<now, rows>>

\* The update of the row after an accepted post, and the 200 response.
UploadUpdate(s) ==
    /\ req[s].pc = "update" /\ IsUpload(req[s])
    /\ \E dbOk \in BOOLEAN :
         LET r == req[s]
             patch == UploadPatch(r.v, r.in, now)
         IN  /\ rows' = UpdateRow(rows, r.token, patch, dbOk)
             /\ req' = [req EXCEPT ![s] =
                          Finish(Log(r, Event("update", r.token, 0, dbOk, DOMAIN patch,
                                              UsedNow(r.token), now)),
                                 Response(200, 0, "success"))]
    /\ UNCHANGED now

\* The requests the upload form or anyone else can send, one deviation
\* from a well-formed upload at a time.
UploadInputs(v) ==
    LET all == [ method : {"POST", "OPTIONS", "GET"}, env : BOOLEAN, fetch : BOOLEAN,
                 err : BOOLEAN, token : {"t1", UnknownToken, NULL},
                 file : {"image", "big", "pdf", NULL}, status : {"PASS"},
                 doc_type : {"ID", NULL} ]
        dev(i) == (IF i.method = "POST" THEN 0 ELSE 1) + (IF i.env THEN 0 ELSE 1)
                  + (IF i.fetch THEN 0 ELSE 1) + (IF i.err THEN 1 ELSE 0)
                  + (IF i.token = "t1" THEN 0 ELSE 1) + (IF i.file = "image" THEN 0 ELSE 1)
    IN  { i \in all :
            /\ dev(i) <= 1
            /\ i.err => i.file = NULL
            /\ ~i.fetch => ChecksFetch(v)
            /\ i.doc_type # NULL <=> v = "part_005" }

----------------------------------------------------------------------------
(* The interactions handlers *)

\* process.env.DISCORD_PUBLIC_KEY names Discord's key pair; DISCORD_STAFF_ROLE_IDS,
\* split at commas, trimmed and filtered, is the set of staff roles.
DISCORD_PUBLIC_KEY == "discord"
staffRoleIds == {"mod"}

\* The body of a request as sent: bytes that are or are not valid UTF-8
\* (enc), that are or are not JSON (json), and the interaction they encode.
Body(json, enc, type, custom_id, roles, user) ==
    [ json |-> json, enc |-> enc, type |-> type, custom_id |-> custom_id,
      roles |-> roles, user |-> user ]

\* readRaw of part_000 builds a string, data += chunk: every byte sequence that
\* is not valid UTF-8 becomes U+FFFD, and Buffer.from(string) encodes that.
readRaw(body) == [body EXCEPT !.enc = IF @ = "invalid" THEN "replaced" ELSE @]

\* readRawBody of interactions_1 keeps the bytes: Buffer.concat(chunks).
readRawBody(body) == body

\* The message a signature is made and verified over: the timestamp followed
\* by the body.
Concat(ts, body) == [ts |-> ts, body |-> body]

\* A signature header: the key pair that made it and the message it signs.
Signature(key, ts, body) == [present |-> TRUE, key |-> key, msg |-> Concat(ts, body)]
NoSignature ==
    [ present |-> FALSE, key |-> NULL,
      msg |-> Concat(NULL, Body(FALSE, "utf8", 0, <<>>, {}, NULL)) ]

\* crypto.verify(null, msg, keyObj, sig) for Ed25519.
crypto_verify(msg, key, sig) == sig.present /\ sig.key = key /\ sig.msg = msg

\* verifyDiscordSignature with the raw body as the variant read it.
verifyDiscordSignature(v, publicKeyHex, signatureHex, timestamp, sent) ==
    LET rawBody == IF v = "part_000" THEN readRaw(sent) ELSE readRawBody(sent)
    IN  crypto_verify(Concat(timestamp, rawBody), publicKeyHex, signatureHex)

\* customId.split(":")[k - 1], undefined when there is no such part.
Part(parts, k) == IF k <= Len(parts) THEN parts[k] ELSE NULL

\* !x for a string or undefined.
Falsy(x) == x = NULL \/ x = ""

\* A staff test that everyone passes.
isStaff_Anyone(clickerRoles) == TRUE

\* clickerRoles.some((r) => staffRoleIds.includes(r))
isStaff(clickerRoles) == \E r \in clickerRoles : r \in staffRoleIds

\* An exception no try block of the handler catches: the handler sends nothing.
Thrown == Response(0, 0, "uncaught exception")

Ephemeral(text) == Response(200, 4, text)

\* The environment checks of the variant: the 500 response, or NoResponse.
InteractEnv(v, missing) ==
    IF missing = "none" THEN NoResponse
    ELSE IF v = "part_000"
    THEN IF missing = "SUPABASE" THEN Response(500, 0, "Missing Supabase env vars")
         ELSE Response(500, 0, "Missing Discord env vars")
    ELSE IF missing = "DISCORD_PUBLIC_KEY" THEN Response(500, 0, "Missing DISCORD_PUBLIC_KEY")
    ELSE IF missing = "DISCORD_BOT_TOKEN" THEN Response(500, 0, "Missing DISCORD_BOT_TOKEN")
    ELSE IF missing = "SUPABASE" THEN Response(500, 0, "Missing Supabase env vars")
    ELSE IF missing = "ROLE_IDS" THEN Response(500, 0, "Missing role env vars")
    ELSE Response(500, 0, "Missing DISCORD_STAFF_ROLE_IDS")

\* The custom_id names a verify button, as the variant tests it.
ValidButton(v, parts) ==
    IF v = "part_000"
    THEN Part(parts, 1) = "verify" /\ ~Falsy(Part(parts, 2)) /\ ~Falsy(Part(parts, 3))
    ELSE Len(parts) = 3 /\ parts[1] = "verify"

\* The handler from its entry to the token lookup: the response it returns
\* early, Thrown, or NoResponse when it goes on to look the token up.
InteractEntry(v, i) ==
    IF v # "part_000" /\ i.method # "POST" THEN Response(405, 0, "Method not allowed")
    ELSE IF InteractEnv(v, i.missing) # NoResponse THEN InteractEnv(v, i.missing)
    ELSE IF ~i.sig.present \/ i.ts = NULL THEN Response(401, 0, "Missing signature headers")
    ELSE IF ~verifyDiscordSignature(v, DISCORD_PUBLIC_KEY, i.sig, i.ts, i.body)
         THEN Response(401, 0, "Bad signature")
    ELSE IF ~i.body.json THEN Thrown
    ELSE IF i.body.type = 1 THEN Response(200, 1, "")
    ELSE IF i.body.type # 3
         THEN IF v = "part_000" THEN Response(200, 6, "")
              ELSE Ephemeral("Unhandled interaction type.")
    ELSE IF ~ValidButton(v, i.body.custom_id)
         THEN Ephemeral(IF v = "part_000" THEN "Invalid button payload." ELSE "Invalid button.")
    ELSE IF ~isStaff(i.body.roles) THEN Ephemeral("You are not allowed to do that.")
    ELSE NoResponse

\* A gate that turns an expired token away.
InteractGate_ChecksExpiry(v, res) ==
    IF v = "part_000" /\ (res.error \/ res.data.user_id = NULL)
    THEN Ephemeral("Token not found.")
    ELSE IF res.error THEN Ephemeral("Token not found.")
    ELSE IF res.data.used THEN Ephemeral("Already decided.")
    ELSE IF NowAfter(now, getTime(res.data.expires_at)) THEN Ephemeral("Token expired")
    ELSE NoResponse

\* A gate that lets a decided token through.
InteractGate_IgnoresUsed(v, res) ==
    IF v = "part_000" /\ (res.error \/ res.data.user_id = NULL)
    THEN Ephemeral("Token not found.")
    ELSE IF res.error THEN Ephemeral("Token not found.")
    ELSE NoResponse

\* The checks on the looked-up row: the response, or NoResponse when the
\* token is there and not decided.
InteractGate(v, res) ==
    IF v = "part_000" /\ (res.error \/ res.data.user_id = NULL)
    THEN Ephemeral("Token not found.")
    ELSE IF res.error THEN Ephemeral("Token not found.")
    ELSE IF res.data.used THEN Ephemeral("Already decided.")
    ELSE NoResponse

\* The role API's answer to PUT .../roles/<role>: no answer (network error,
\* timeout) or a status.
GrantOutcomes ==
    { [neterr |-> TRUE, status |-> 0] } \cup [neterr : {FALSE}, status : {204, 202, 403}]

\* The status test each variant applies to a role grant.
GrantSucceeded(v, status) ==
    IF v = "part_000" THEN status \in {200, 201, 204} ELSE IsSuccess(status)

\* A patch that stores every decision as an approval.
DecisionPatch_Approved(v, decision, staff, t) ==
    [ used |-> TRUE, decision |-> "approved", decided_at |-> toISOString(t),
      decided_by |-> staff ]

\* A decision that is stored without closing the token.
DecisionPatch_NotUsed(v, decision, staff, t) ==
    [decision |-> decision, decided_at |-> toISOString(t), decided_by |-> staff]

\* The columns a decision writes.  part_000 passes decided_by: staffId, which
\* is undefined when the interaction names no user, and an undefined field is
\* not sent.
DecisionPatch(v, decision, staff, t) ==
    IF v = "part_000" /\ staff = NULL
    THEN [used |-> TRUE, decision |-> decision, decided_at |-> toISOString(t)]
    ELSE [ used |-> TRUE, decision |-> decision, decided_at |-> toISOString(t),
           decided_by |-> staff ]

\* The reply after the update.  interactions_1 reads interaction.member.user.id
\* to build it, which throws inside its try block when there is no user.
DecisionReply(v, decision, staff) ==
    IF v # "part_000" /\ staff = NULL THEN Ephemeral("Error")
    ELSE Response(200, 7, IF decision = "approved" THEN "APPROVED" ELSE "DENIED")

\* handler, from its entry to the first await on the token table.
InteractReceive(s, v, i) ==
    /\ Free(req[s])
    /\ LET early == InteractEntry(v, i)
           r == [Idle EXCEPT !.v = v, !.in = i,
                             !.action = Part(i.body.custom_id, 2),
                             !.token = Part(i.body.custom_id, 3),
                             !.staff = i.body.user,
                             !.late = UsedNow(Part(i.body.custom_id, 3))]
       IN  req' = [req EXCEPT ![s] =
                     IF early = NoResponse THEN [r EXCEPT !.pc = "lookup"]
                     ELSE IF early = Thrown THEN [r EXCEPT !.pc = "crashed"]
                     ELSE Finish(r, early)]
    /\ UNCHANGED <<now, rows>>

\* The select returns; the handler checks the row and the action.
InteractLookup(s) ==
    /\ req[s].pc = "lookup" /\ IsInteract(req[s])
    /\ \E dbOk \in BOOLEAN :
         LET r == req[s]
             res == SelectSingle(rows, r.token, dbOk)
             gate == InteractGate(r.v, res)
             r1 == [Log(r, Event("lookup", r.token, 0, ~res.error, {}, UsedNow(r.token), now))
                      EXCEPT !.user_id = res.data.user_id]
         IN  req' = [req EXCEPT ![s] =
                       IF gate # NoResponse THEN Finish(r1, gate)
                       ELSE IF r.action = "approve" THEN [r1 EXCEPT !.pc = "grant"]
                       ELSE IF r.action = "deny" THEN [r1 EXCEPT !.pc = "update"]
                       ELSE Finish(r1, Ephemeral("Unknown action."))]
    /\ UNCHANGED <<now, rows>>

\* interactions_1: Promise.all of the two role grants, then the status tests.
InteractGrantBoth(s) ==
    /\ req[s].pc = "grant" /\ req[s].v = "interactions_1"
    /\ \E o1 \in GrantOutcomes, o2 \in GrantOutcomes :
         LET r == req[s]
             ok1 == ~o1.neterr /\ GrantSucceeded(r.v, o1.status)
             ok2 == ~o2.neterr /\ GrantSucceeded(r.v, o2.status)
             r1 == Log(r, Event("grant", "verified", o1.status, ok1, {}, UsedNow(r.token), now))
             r2 == Log(r1, Event("grant", "resident", o2.status, ok2, {}, UsedNow(r.token), now))
         IN  req' = [req EXCEPT ![s] =
                       IF ok1 /\ ok2 THEN [r2 EXCEPT !.pc = "update"]
                       ELSE Finish(r2, Ephemeral("Error"))]
    /\ UNCHANGED <<now, rows>>

\* part_000: await discordPut for the verified role.
InteractGrantFirst(s) ==
    /\ req[s].pc = "grant" /\ req[s].v = "part_000"
    /\ \E o1 \in GrantOutcomes :
         LET r == req[s]
             ok1 == ~o1.neterr /\ GrantSucceeded(r.v, o1.status)
             r1 == Log(r, Event("grant", "verified", o1.status, ok1, {}, UsedNow(r.token), now))
         IN  req' = [req EXCEPT ![s] =
                       IF o1.neterr THEN [r1 EXCEPT !.pc = "crashed"]
                       ELSE [r1 EXCEPT !.pc = "grant2", !.s1 = o1.status]]
    /\ UNCHANGED <<now, rows>>

\* part_000: await discordPut for the resident role, then the test of both.
InteractGrantSecond(s) ==
    /\ req[s].pc = "grant2" /\ req[s].v = "part_000"
    /\ \E o2 \in GrantOutcomes :
         LET r == req[s]
             ok2 == ~o2.neterr /\ GrantSucceeded(r.v, o2.status)
             r1 == Log(r, Event("grant", "resident", o2.status, ok2, {}, UsedNow(r.token), now))
         IN  req' = [req EXCEPT ![s] =
                       IF o2.neterr THEN [r1 EXCEPT !.pc = "crashed"]
                       ELSE IF GrantSucceeded(r.v, r.s1) /\ GrantSucceeded(r.v, o2.status)
                       THEN [r1 EXCEPT !.pc = "update"]
                       ELSE Finish(r1, Ephemeral("Role assignment failed"))]
    /\ UNCHANGED <<now, rows>>

\* The update that stores the decision, and the reply.
InteractUpdate(s) ==
    /\ req[s].pc = "update" /\ IsInteract(req[s])
    /\ \E dbOk \in BOOLEAN :
         LET r == req[s]
             decision == IF r.action = "approve" THEN "approved" ELSE "denied"
             patch == DecisionPatch(r.v, decision, r.staff, now)
         IN  /\ rows' = UpdateRow(rows, r.token, patch, dbOk)
             /\ req' = [req EXCEPT ![s] =
                          Finish(Log(r, Event("update", r.token, 0, dbOk, DOMAIN patch,
                                              UsedNow(r.token), now)),
                                 DecisionReply(r.v, decision, r.staff))]
    /\ UNCHANGED now

\* The custom_id values, split at ":".
CustomIds ==
    { <<"verify", "approve", "t1">>, <<"verify", "deny", "t1">>,
      <<"verify", "ban", "t1">>, <<"verify", "approve", UnknownToken>>,
      <<"verify", "approve">>, <<"verify", "approve", "t1", "x">>,
      <<"other", "approve", "t1">>, <<"verify", "", "t1">>, <<"">> }

Buttons ==
    { Body(TRUE, "utf8", 3, c, r, u) :
        c \in CustomIds, r \in {{"mod"}, {"guest"}}, u \in {"s1", NULL} }

Bodies ==
    Buttons \cup { Body(FALSE, "utf8", 0, <<>>, {}, NULL),
                   Body(TRUE, "utf8", 1, <<>>, {}, NULL),
                   Body(TRUE, "utf8", 2, <<>>, {}, NULL) }

\* A staff member's and a guest's click on Approve.
PlainBodies ==
    { Body(TRUE, "utf8", 3, <<"verify", "approve", "t1">>, r, "s1") :
        r \in {{"mod"}, {"guest"}} }

\* The signature headers a request can carry for a body: Discord's signature
\* over the timestamp and the bytes sent, none, one without the timestamp
\* header, one by another key, one over another timestamp, and Discord's
\* signature over the body with its invalid bytes replaced.
Signed(kind, body) ==
    IF kind = "valid"
        THEN [ts |-> "1700", sig |-> Signature(DISCORD_PUBLIC_KEY, "1700", body)]
    ELSE IF kind = "missing" THEN [ts |-> "1700", sig |-> NoSignature]
    ELSE IF kind = "nots"
        THEN [ts |-> NULL, sig |-> Signature(DISCORD_PUBLIC_KEY, "1700", body)]
    ELSE IF kind = "forged" THEN [ts |-> "1700", sig |-> Signature("mallory", "1700", body)]
    ELSE IF kind = "stale"
        THEN [ts |-> "1700", sig |-> Signature(DISCORD_PUBLIC_KEY, "1600", body)]
    ELSE [ts |-> "1700", sig |-> Signature(DISCORD_PUBLIC_KEY, "1700", readRaw(body))]

Request(method, missing, kind, body) ==
    [ method |-> method, missing |-> missing, ts |-> Signed(kind, body).ts,
      sig |-> Signed(kind, body).sig, body |-> body ]

\* The requests Discord or anyone else can send: every body in a signed POST
\* to a configured handler, and a click on Approve with every method,
\* configuration and signature, with and without bytes that are not UTF-8.
InteractInputs ==
    { Request("POST", "none", "valid", b) : b \in Bodies }
    \cup { Request(m, e, k, b) :
            m \in {"POST", "GET"},
            e \in { "none", "DISCORD_PUBLIC_KEY", "DISCORD_BOT_TOKEN", "SUPABASE",
                    "ROLE_IDS", "DISCORD_STAFF_ROLE_IDS" },
            k \in {"valid", "missing", "nots", "forged", "stale"},
            b \in PlainBodies }
    \cup { Request(m, e, k, [b EXCEPT !.enc = "invalid"]) :
            m \in {"POST", "GET"}, e \in {"none", "SUPABASE"},
            k \in {"valid", "roundtrip"}, b \in PlainBodies }

----------------------------------------------------------------------------
(* The platform *)

\* The invocation ends and its slot takes the next request.
Recycle(s) ==
    /\ Over(req[s])
    /\ req' = [req EXCEPT ![s] = Idle]
    /\ UNCHANGED <<now, rows>>

Tick ==
    /\ now < MaxTime
    /\ now' = now + 1
    /\ UNCHANGED <<rows, req>>

----------------------------------------------------------------------------
Init ==
    /\ now = 1
    /\ rows \in [Tokens -> IssuedRows]
    /\ req = [s \in Slots |-> IF s = "a" THEN Idle ELSE Off]

Next ==
    \/ \E s \in Slots, v \in UploadVariants : \E i \in UploadInputs(v) : UploadReceive(s, v, i)
    \/ \E s \in Slots : UploadLookup(s)
    \/ \E s \in Slots : UploadWebhook(s)
    \/ \E s \in Slots : UploadUpdate(s)
    \/ \E s \in Slots, v \in InteractVariants : \E i \in InteractInputs : InteractReceive(s, v, i)
    \/ \E s \in Slots : InteractLookup(s)
    \/ \E s \in Slots : InteractGrantBoth(s)
    \/ \E s \in Slots : InteractGrantFirst(s)
    \/ \E s \in Slots : InteractGrantSecond(s)
    \/ \E s \in Slots : InteractUpdate(s)
    \/ \E s \in Slots : Recycle(s)
    \/ Tick

Spec == Init /\ [][Next]_vars

----------------------------------------------------------------------------
(* Two invocations at once *)

\* The serverless platform runs every request in an invocation of its own;
\* nothing in the handlers keeps two of them apart.  Two slots each take one
\* request for the same token: a well-formed upload, or a staff member's
\* signed click on Approve or Deny.
ConcUploadInputs(v) ==
    { i \in UploadInputs(v) :
        /\ i.method = "POST" /\ i.env /\ i.fetch /\ ~i.err
        /\ i.token = "t1" /\ i.file = "image" }

ConcInteractInputs ==
    { Request("POST", "none", "valid",
              Body(TRUE, "utf8", 3, <<"verify", a, "t1">>, {"mod"}, "s1")) :
        a \in {"approve", "deny"} }

InitConc ==
    /\ now = 1
    /\ rows = [t \in Tokens |-> IssuedRow("hook", "u1", toISOString(1))]
    /\ req = [s \in Slots |-> Idle]

NextConc ==
    \/ \E s \in Slots, v \in UploadVariants :
          \E i \in ConcUploadInputs(v) : UploadReceive(s, v, i)
    \/ \E s \in Slots : UploadLookup(s)
    \/ \E s \in Slots : UploadWebhook(s)
    \/ \E s \in Slots : UploadUpdate(s)
    \/ \E s \in Slots, v \in InteractVariants :
          \E i \in ConcInteractInputs : InteractReceive(s, v, i)
    \/ \E s \in Slots : InteractLookup(s)
    \/ \E s \in Slots : InteractGrantBoth(s)
    \/ \E s \in Slots : InteractGrantFirst(s)
    \/ \E s \in Slots : InteractGrantSecond(s)
    \/ \E s \in Slots : InteractUpdate(s)
    \/ Tick

SpecConc == InitConc /\ [][NextConc]_vars

----------------------------------------------------------------------------
(* Two tokens that differ in their expiry alone *)

\* Token "t1" expired before the clock started and token "t2" expires after
\* it stops; the rows are alike in every other column.
ExpiredToken == "t1"
FreshToken == "t2"

ExpiryRows(user) ==
    [ t \in {ExpiredToken, FreshToken} |->
        IssuedRow("hook", user,
                  IF t = ExpiredToken THEN toISOString(0) ELSE toISOString(MaxTime + 1)) ]

\* A staff member's signed click on a button of either token.
ExpiryInputs ==
    { Request("POST", "none", "valid",
              Body(TRUE, "utf8", 3, <<"verify", a, t>>, {"mod"}, "s1")) :
        a \in {"approve", "deny", "ban"}, t \in {ExpiredToken, FreshToken} }

InitExpiry ==
    /\ now = 1
    /\ \E user \in {"u1", NULL} : rows = ExpiryRows(user)
    /\ req = [s \in Slots |-> Idle]

NextExpiry ==
    \/ \E s \in Slots, v \in InteractVariants :
          \E i \in ExpiryInputs : InteractReceive(s, v, i)
    \/ \E s \in Slots : InteractLookup(s)
    \/ \E s \in Slots : InteractGrantBoth(s)
    \/ \E s \in Slots : InteractGrantFirst(s)
    \/ \E s \in Slots : InteractGrantSecond(s)
    \/ \E s \in Slots : InteractUpdate(s)
    \/ Tick

SpecExpiry == InitExpiry /\ [][NextExpiry]_vars

----------------------------------------------------------------------------
(* Properties *)

Requests == { req[s] : s \in Slots }
Uploads == { r \in Requests : IsUpload(r) }
Interactions == { r \in Requests : IsInteract(r) }

\* The positions in the request's log of its steps of one kind.
Steps(r, op) == { k \in DOMAIN r.log : r.log[k].op = op }

\* A 2xx status.
Accepted(code) == code \in 200..299

\* The request was answered once, with this status and text.
Answered(r, status, text) ==
    /\ Len(r.resp) = 1
    /\ r.resp[1].status = status
    /\ r.resp[1].text = text

StepOrder(op) ==
    CASE op = "lookup" -> 1 [] op = "check" -> 2 [] op = "post" -> 3
      [] op = "update" -> 4 [] OTHER -> 5

\* C1: in every upload handler the steps of a request come in the order
\* lookup, used/expiry check, webhook post, row update, and a request updates
\* the token row only after every webhook post it made was answered with a
\* 2xx status (and it made at least one).
C1_UpdateOnlyAfterAcceptedPost ==
    \A r \in Uploads :
        /\ \A k, l \in DOMAIN r.log :
              k < l => StepOrder(r.log[k].op) <= StepOrder(r.log[l].op)
        /\ \A l \in Steps(r, "update") :
              /\ \E k \in Steps(r, "post") : k < l
              /\ \A k \in Steps(r, "post") : k < l /\ Accepted(r.log[k].code)
              /\ \E k \in Steps(r, "check") : r.log[k].ok
              /\ \E k \in Steps(r, "lookup") : r.log[k].ok

\* An upload went through all four steps and set submitted.
C1_Witness ==
    \E r \in Uploads :
        /\ r.pc = "done"
        /\ Steps(r, "update") # {}
        /\ \E k \in Steps(r, "update") : r.log[k].ok /\ "submitted" \in r.log[k].fields
        /\ rows[r.token].submitted

\* The signature header verifies, under the configured public key, over the
\* x-signature-timestamp header followed by the bytes of the body as sent.
SignatureVerifies(i) ==
    /\ i.sig.present
    /\ i.ts # NULL
    /\ crypto_verify(Concat(i.ts, i.body), DISCORD_PUBLIC_KEY, i.sig)

\* C2 (first sentence): the interactions handler reads no token row, writes
\* none and issues no role grant for a request unless its Ed25519 signature
\* verifies over the timestamp header and the raw request body.
C2_NoAccessUnlessSignedOverRawBody ==
    \A r \in Interactions : r.log # <<>> => SignatureVerifies(r.in)

\* C2 (second sentence): a request with a missing signature header or a
\* signature that does not verify is answered with status 401.
C2_UnverifiedAnswered401 ==
    \A r \in Interactions :
        Over(r) /\ ~SignatureVerifies(r.in) =>
            Len(r.resp) = 1 /\ r.resp[1].status = 401

\* C3 as claimed: a row that is used and has a decision is submitted.
C3_DecidedOnlyAfterSubmitted ==
    \A t \in Tokens :
        rows[t].used /\ rows[t].decision # NULL => rows[t].submitted

\* C3 as amended: a row moves issued -> decided, submitted or not: a row with
\* a decision is used and carries decided_at, and a decision is stored only by
\* an interactions request whose lookup found the row not used.
C3_DecidedImpliesUsed ==
    /\ \A t \in Tokens :
          rows[t].decision # NULL =>
              rows[t].used /\ rows[t].decided_at # NULL
                           /\ rows[t].decision \in {"approved", "denied"}
    /\ \A r \in Interactions :
          \A l \in Steps(r, "update") :
              \E k \in Steps(r, "lookup") : k < l /\ r.log[k].ok /\ ~r.log[k].used

\* A token was decided that no upload had submitted.
C3_Witness ==
    \E t \in Tokens :
        rows[t].used /\ rows[t].decision # NULL /\ ~rows[t].submitted

\* The upload looked its token up, got the row, and the row was used then.
FoundUsed(r) == \E k \in Steps(r, "lookup") : r.log[k].ok /\ r.log[k].used

\* The upload looked its token up, got the row, and the row was not used then.
FoundUnused(r) == \E k \in Steps(r, "lookup") : r.log[k].ok /\ ~r.log[k].used

\* The request made no webhook post and no update of the row.
NoPostNoUpdate(r) == Steps(r, "post") = {} /\ Steps(r, "update") = {}

\* The variant tests webhook_url before used and expiry, and the row has none.
HookMissingFirst(r) == HookCheckedFirst(r.v) /\ rows[r.token].webhook_url = NULL

\* C4 as claimed: an upload whose token row has used=true at lookup time is
\* answered 400 "Token already decided" or "Token already used", makes no
\* webhook post and leaves the row unchanged.
C4_UsedRejected ==
    \A r \in Uploads :
        FoundUsed(r) =>
            /\ NoPostNoUpdate(r)
            /\ Over(r) =>
                  \/ Answered(r, 400, "Token already decided")
                  \/ Answered(r, 400, "Token already used")

\* C4 as amended: such an upload is answered 400, makes no webhook post and
\* leaves the row unchanged; the message is "Token already decided" or "Token
\* already used", except in the variants that test webhook_url first, where
\* it is "Token missing webhook_url" when the row has no webhook_url.
C4_UsedRejectedOrHookMissing ==
    \A r \in Uploads :
        FoundUsed(r) =>
            /\ NoPostNoUpdate(r)
            /\ r.pc = "done"
            /\ IF HookMissingFirst(r)
               THEN Answered(r, 400, "Token missing webhook_url")
               ELSE \/ Answered(r, 400, "Token already decided")
                    \/ Answered(r, 400, "Token already used")

\* An upload on a decided token was turned away as decided.
C4_Witness ==
    \E r \in Uploads :
        /\ FoundUsed(r)
        /\ rows[r.token].decision # NULL
        /\ Answered(r, 400, "Token already decided")

\* The row's expires_at parses to a time strictly before the request's lookup.
ExpiredAtLookup(r) ==
    /\ r.token \in Tokens
    /\ rows[r.token].expires_at # NULL
    /\ isFinite(getTime(rows[r.token].expires_at))
    /\ \E k \in Steps(r, "lookup") :
          r.log[k].ok /\ getTime(rows[r.token].expires_at).ms < r.log[k].at

\* The request looked the row up at the very instant of expires_at.
AtExpiryAtLookup(r) ==
    /\ r.token \in Tokens
    /\ rows[r.token].expires_at # NULL
    /\ isFinite(getTime(rows[r.token].expires_at))
    /\ \E k \in Steps(r, "lookup") :
          r.log[k].ok /\ getTime(rows[r.token].expires_at).ms = r.log[k].at

NotExpiredReply(r) == \A k \in DOMAIN r.resp : r.resp[k].text # "Token expired"

\* C5 as claimed: an upload whose row has a parseable expires_at strictly
\* earlier than the current time is answered 400 "Token expired", makes no
\* webhook post and leaves the row unchanged; at now = expires_at the token
\* is not treated as expired.
C5_ExpiredRejected ==
    \A r \in Uploads :
        /\ ExpiredAtLookup(r) =>
              /\ NoPostNoUpdate(r)
              /\ Over(r) => Answered(r, 400, "Token expired")
        /\ AtExpiryAtLookup(r) => NotExpiredReply(r)

\* C5 as amended: such an upload is answered 400, makes no webhook post and
\* leaves the row unchanged; the message is "Token expired" when the row is
\* not used and (in the variants that test webhook_url first) has a
\* webhook_url; the tests that come first answer "Token missing webhook_url"
\* and "Token already decided" / "Token already used" otherwise.  At
\* now = expires_at the token is not treated as expired.
C5_ExpiredRejectedUnlessUsed ==
    \A r \in Uploads :
        /\ ExpiredAtLookup(r) =>
              /\ NoPostNoUpdate(r)
              /\ r.pc = "done"
              /\ IF HookMissingFirst(r)
                 THEN Answered(r, 400, "Token missing webhook_url")
                 ELSE IF FoundUsed(r)
                 THEN \/ Answered(r, 400, "Token already decided")
                      \/ Answered(r, 400, "Token already used")
                 ELSE Answered(r, 400, "Token expired")
        /\ AtExpiryAtLookup(r) => NotExpiredReply(r)

\* An upload after the expiry of an undecided token was answered "Token
\* expired".
C5_Witness ==
    \E r \in Uploads :
        /\ ExpiredAtLookup(r)
        /\ FoundUnused(r)
        /\ Answered(r, 400, "Token expired")

\* An upload at the instant of expiry went on to the webhook post.
C5_WitnessAtExpiry ==
    \E r \in Uploads : AtExpiryAtLookup(r) /\ Steps(r, "post") # {}

\* C6: no upload handler writes used or decision; the only columns an upload
\* writes are submitted, submitted_at, ai_status and doc_type, so used=true is
\* set by the approve and deny paths of the interactions handler alone.
C6_UploadWritesOnlySubmission ==
    \A r \in Uploads :
        \A k \in Steps(r, "update") :
            r.log[k].fields \subseteq {"submitted", "submitted_at", "ai_status", "doc_type"}

\* A button interaction by a staff member, approve or deny, for a token that
\* was used when the interaction arrived, and that the handler took as far as
\* the token.
LaterDecision(r) ==
    /\ r.late
    /\ r.in.body.type = 3
    /\ r.action \in {"approve", "deny"}
    /\ isStaff(r.in.body.roles)
    /\ Steps(r, "lookup") # {}

NoGrantNoUpdate(r) == Steps(r, "grant") = {} /\ Steps(r, "update") = {}

\* No step of any handler takes used from true to false.
UsedNeverReset == [][\A t \in Tokens : rows[t].used => rows'[t].used]_vars

\* C7 as claimed, the interaction: once used=true, a later approve or deny by
\* staff is answered "Already decided.", grants no role and writes nothing.
C7_LaterAnsweredAlreadyDecided ==
    \A r \in Interactions :
        LaterDecision(r) =>
            /\ NoGrantNoUpdate(r)
            /\ Over(r) => r.resp = <<Ephemeral("Already decided.")>>

\* C7 as claimed: decided is terminal, and no handler sets used back to false.
C7_DecidedIsTerminal == []C7_LaterAnsweredAlreadyDecided /\ UsedNeverReset

\* The lookup of the request returned the row as the variant needs it: no
\* error, and for part_000 a row with a user_id.
RowFound(r) ==
    /\ \E k \in Steps(r, "lookup") : r.log[k].ok
    /\ r.v = "part_000" => rows[r.token].user_id # NULL

\* C7 as amended, the interaction: the answer depends on whether the lookup
\* returned the row; no grant and no write either way.
C7_LaterAnsweredOrNotFound ==
    \A r \in Interactions :
        LaterDecision(r) =>
            /\ NoGrantNoUpdate(r)
            /\ r.pc = "done"
            /\ IF RowFound(r) THEN r.resp = <<Ephemeral("Already decided.")>>
                              ELSE r.resp = <<Ephemeral("Token not found.")>>

\* C7 as amended: once used=true, a later approve or deny by staff grants no
\* role and writes nothing, and is answered "Already decided." when the lookup
\* returns the row (for part_000: a row with a user_id) and "Token not found."
\* when it does not; no handler sets used back to false.
C7_DecidedIsTerminalWhenFound == []C7_LaterAnsweredOrNotFound /\ UsedNeverReset

\* A second decision on a decided token was answered "Already decided.".
C7_Witness ==
    \E r \in Interactions :
        /\ LaterDecision(r)
        /\ rows[r.token].decision # NULL
        /\ r.action = "deny" /\ rows[r.token].decision = "approved"
        /\ r.resp = <<Ephemeral("Already decided.")>>

\* The webhook answered a post of the request with a status outside 2xx.
WebhookRejected(r) ==
    \E k \in Steps(r, "post") : r.log[k].code # 0 /\ ~Accepted(r.log[k].code)

\* C8: when the webhook answers the forwarded upload with a non-2xx status
\* the upload is answered 502 and the row is left unchanged, and 200 success
\* is sent only when the webhook accepted every post.
C8_RejectedAnswered502 ==
    \A r \in Uploads :
        /\ WebhookRejected(r) =>
              /\ Steps(r, "update") = {}
              /\ Over(r) => Len(r.resp) = 1 /\ r.resp[1].status = 502
        /\ (\E k \in DOMAIN r.resp : r.resp[k].status = 200) =>
              /\ Steps(r, "post") # {}
              /\ \A k \in Steps(r, "post") : Accepted(r.log[k].code)

\* The parts of C8 that hold in every variant: a rejected post leaves the row
\* unchanged and is never answered 200.
C8_RejectedNeverStored ==
    \A r \in Uploads :
        /\ WebhookRejected(r) =>
              /\ Steps(r, "update") = {}
              /\ \A k \in DOMAIN r.resp : r.resp[k].status \in {500, 502}
        /\ (\E k \in DOMAIN r.resp : r.resp[k].status = 200) =>
              /\ Steps(r, "post") # {}
              /\ \A k \in Steps(r, "post") : Accepted(r.log[k].code)

\* A button interaction, signed over the raw body, by a member with none of
\* the staff roles.
SignedNonStaffButton(r) ==
    /\ SignatureVerifies(r.in)
    /\ r.in.body.json /\ r.in.body.type = 3
    /\ \A role \in r.in.body.roles : role \notin staffRoleIds

NotAllowed == Ephemeral("You are not allowed to do that.")

\* C9 as claimed: a signed button interaction by a member with no staff role
\* is answered "You are not allowed to do that.", and no token row is read or
\* written and no role grant is issued for it.
C9_NonStaffRefused ==
    \A r \in Interactions :
        SignedNonStaffButton(r) =>
            /\ r.log = <<>>
            /\ Over(r) => r.resp = <<NotAllowed>>

\* The checks the handler makes before the staff test let the request
\* through: a POST, every environment value set, a signature the handler
\* accepts, and a custom_id of the form verify:<action>:<token>.
ReachesStaffTest(r) ==
    /\ r.in.method = "POST" \/ r.v = "part_000"
    /\ r.in.missing = "none"
    /\ verifyDiscordSignature(r.v, DISCORD_PUBLIC_KEY, r.in.sig, r.in.ts, r.in.body)
    /\ ValidButton(r.v, r.in.body.custom_id)

\* C9 as amended: for a signed button interaction by a member with no staff
\* role no token row is read or written and no role grant is issued; it is
\* answered "You are not allowed to do that." when it reaches the staff test,
\* which comes after the method, environment, signature and custom_id checks,
\* and with the answer of the check that fails (405, 500, 401, "Invalid
\* button.") when it does not.
C9_NonStaffRefusedAtStaffTest ==
    \A r \in Interactions :
        SignedNonStaffButton(r) =>
            /\ r.log = <<>>
            /\ r.pc = "done"
            /\ IF ReachesStaffTest(r) THEN r.resp = <<NotAllowed>>
               ELSE /\ Len(r.resp) = 1
                    /\ \/ r.resp[1].status \in {401, 405, 500}
                       \/ r.resp[1] \in { Ephemeral("Invalid button."),
                                           Ephemeral("Invalid button payload.") }

\* A guest's signed click on Approve was refused.
C9_Witness ==
    \E r \in Interactions :
        /\ SignedNonStaffButton(r)
        /\ r.action = "approve" /\ r.token \in Tokens
        /\ r.resp = <<NotAllowed>>

\* The role API answered a grant of the request with a status outside 2xx.
GrantRefused(r) ==
    \E k \in Steps(r, "grant") : r.log[k].code # 0 /\ ~Accepted(r.log[k].code)

\* C10: approve writes the row only after both role grants (verified and
\* resident) returned a success status; if either grant returns a non-success
\* status the row is left unchanged and the reply is an ephemeral error, not
\* the APPROVED message update.
C10_ApproveOnlyAfterBothGrants ==
    \A r \in Interactions :
        /\ r.action = "approve" =>
              \A l \in Steps(r, "update") :
                  \A name \in {"verified", "resident"} :
                      \E k \in Steps(r, "grant") :
                          k < l /\ r.log[k].name = name /\ Accepted(r.log[k].code)
        /\ GrantRefused(r) =>
              /\ Steps(r, "update") = {}
              /\ Over(r) => Len(r.resp) = 1 /\ r.resp[1].type = 4 /\ r.resp[1].status = 200

\* The parts of C10 that hold in both variants: the row is written only after
\* both grants succeeded, and a refused grant leaves the row unchanged and is
\* never answered with the message update.
C10_ApproveNeverStoredOnRefusal ==
    \A r \in Interactions :
        /\ r.action = "approve" =>
              \A l \in Steps(r, "update") :
                  \A name \in {"verified", "resident"} :
                      \E k \in Steps(r, "grant") :
                          k < l /\ r.log[k].name = name /\ Accepted(r.log[k].code)
        /\ GrantRefused(r) =>
              /\ Steps(r, "update") = {}
              /\ \A k \in DOMAIN r.resp : r.resp[k].type = 4

\* The slots whose request is an interaction for token t with a step of kind op.
Deciders(t, op) ==
    { s \in Slots : IsInteract(req[s]) /\ req[s].token = t /\ Steps(req[s], op) # {} }

\* The slots whose interaction for token t passed the used check.
PassedUsedCheck(t) ==
    { s \in Slots :
        /\ IsInteract(req[s]) /\ req[s].token = t
        /\ \E k \in Steps(req[s], "lookup") : req[s].log[k].ok /\ ~req[s].log[k].used
        /\ req[s].pc \in {"grant", "grant2", "update"} \/ Len(req[s].log) > 1 }

\* C11: across the interleavings of concurrent button interactions on one
\* undecided token at most one request passes the used check and performs the
\* update of used/decision/decided_by, and at most one request issues
\* role-grant requests.
C11_DecidedAtMostOnce ==
    \A t \in Tokens :
        /\ Cardinality(PassedUsedCheck(t)) <= 1
        /\ Cardinality(Deciders(t, "update")) <= 1
        /\ Cardinality(Deciders(t, "grant")) <= 1

\* C11, the writes alone: at most one request updates the row.
C11_WrittenAtMostOnce ==
    \A t \in Tokens : Cardinality(Deciders(t, "update")) <= 1

\* C11, the grants alone: at most one request issues role grants.
C11_GrantedByAtMostOne ==
    \A t \in Tokens : Cardinality(Deciders(t, "grant")) <= 1

\* C12: if a token row has decision="denied", no role-grant request was ever
\* issued for that token's user by the interactions handler, also when an
\* approve and a deny of the token are processed concurrently.
C12_DeniedMeansNeverGranted ==
    \A t \in Tokens :
        rows[t].decision = "denied" => Deciders(t, "grant") = {}

\* C12 for grants that succeeded: no role was granted to the user of a token
\* whose row says denied.
C12_DeniedMeansNoRole ==
    \A t \in Tokens :
        rows[t].decision = "denied" =>
            \A s \in Deciders(t, "grant") :
                \A k \in Steps(req[s], "grant") : ~req[s].log[k].ok

\* The decision a message update announces.
Announced(text) == IF text = "APPROVED" THEN "approved" ELSE "denied"

\* C13: whenever the interactions handler replies with the message update
\* (type 7) announcing APPROVED or DENIED, the token row is stored with
\* used=true and the matching decision, also when the update call reports an
\* error.
C13_AnnouncedIsStored ==
    \A r \in Interactions :
        \A k \in DOMAIN r.resp :
            r.resp[k].type = 7 =>
                /\ r.token \in Tokens
                /\ rows[r.token].used
                /\ rows[r.token].decision = Announced(r.resp[k].text)

\* C13 without the error case: the message update is sent only after an
\* update call for the announced decision was made.
C13_AnnouncedAfterUpdateCall ==
    \A r \in Interactions :
        \A k \in DOMAIN r.resp :
            r.resp[k].type = 7 =>
                /\ Steps(r, "update") # {}
                /\ (\A l \in Steps(r, "update") : r.log[l].ok) =>
                      rows[r.token].used /\ rows[r.token].decision = Announced(r.resp[k].text)

\* The interaction got as far as the token lookup: signed, a verify button,
\* clicked by staff.
ReachedLookup(r) == Steps(r, "lookup") # {}

\* The row holds the decision of request r.
StoredDecision(r, decision) ==
    /\ rows[r.token].used
    /\ rows[r.token].decision = decision
    /\ rows[r.token].decided_at # NULL
    /\ rows[r.token].decided_by = r.staff

\* C14 as claimed: a deny on an undecided token sets used, decision="denied",
\* decided_at and decided_by and issues no role grant; an action that is
\* neither approve nor deny is answered "Unknown action." with the row
\* unchanged and no role grant.
C14_DenyWritesUnknownRefused ==
    \A r \in Interactions :
        ReachedLookup(r) =>
            /\ r.action = "deny" /\ r.token \in Tokens /\ ~r.late =>
                  /\ Steps(r, "grant") = {}
                  /\ Over(r) => StoredDecision(r, "denied")
            /\ r.action \notin {"approve", "deny"} =>
                  /\ NoGrantNoUpdate(r)
                  /\ Over(r) => r.resp = <<Ephemeral("Unknown action.")>>

\* The columns a decision is to write; part_000 sends no decided_by when the
\* interaction names no user.
DecisionColumns(r) ==
    IF r.v = "part_000" /\ r.staff = NULL
    THEN {"used", "decision", "decided_at"}
    ELSE {"used", "decision", "decided_at", "decided_by"}

\* C14 as amended: a deny issues no role grant; on a row the lookup returned
\* with used=false it makes one update call for used, decision="denied",
\* decided_at and decided_by, and the row holds them when that call succeeds.
\* An action that is neither approve nor deny grants and writes nothing, and
\* is answered "Unknown action." when the lookup returned the row with
\* used=false, "Already decided." when used=true and "Token not found." when
\* the lookup did not return the row.
C14_DenyWritesWhenStored ==
    \A r \in Interactions :
        /\ r.action = "deny" =>
              /\ Steps(r, "grant") = {}
              /\ ReachedLookup(r) /\ RowFound(r) /\ FoundUnused(r) /\ Over(r) =>
                    /\ Cardinality(Steps(r, "update")) = 1
                    /\ \A k \in Steps(r, "update") :
                          /\ r.log[k].fields = DecisionColumns(r)
                          /\ r.log[k].ok => StoredDecision(r, "denied")
        /\ r.action \notin {"approve", "deny"} =>
              /\ NoGrantNoUpdate(r)
              /\ ReachedLookup(r) =>
                    /\ r.pc = "done"
                    /\ r.resp = IF ~RowFound(r) THEN <<Ephemeral("Token not found.")>>
                                ELSE IF FoundUsed(r) THEN <<Ephemeral("Already decided.")>>
                                ELSE <<Ephemeral("Unknown action.")>>

\* A deny was stored and granted nothing.
C14_Witness ==
    \E r \in Interactions :
        /\ r.action = "deny" /\ r.pc = "done"
        /\ Steps(r, "grant") = {}
        /\ StoredDecision(r, "denied")
        /\ r.resp = <<Response(200, 7, "DENIED")>>

\* An unknown action on an undecided token was refused.
C14_WitnessUnknown ==
    \E r \in Interactions :
        /\ r.action = "ban" /\ FoundUnused(r)
        /\ r.resp = <<Ephemeral("Unknown action.")>>

\* The handler verified the signature of the request.
PassedVerification(r) ==
    /\ r.in.method = "POST" \/ r.v = "part_000"
    /\ r.in.missing = "none"
    /\ r.in.sig.present /\ r.in.ts # NULL
    /\ verifyDiscordSignature(r.v, DISCORD_PUBLIC_KEY, r.in.sig, r.in.ts, r.in.body)

\* C15: every interaction that passes signature verification receives exactly
\* one response, also when the body is not JSON, when a role grant fails with
\* a network error or a timeout and when a database call fails: no such
\* request ends without a response or with two, and in those error cases the
\* row is unchanged.
C15_VerifiedAlwaysAnswered ==
    \A r \in Interactions :
        PassedVerification(r) =>
            /\ r.pc # "crashed"
            /\ Len(r.resp) <= 1
            /\ Over(r) => Len(r.resp) = 1
            /\ (\E k \in DOMAIN r.log : ~r.log[k].ok) /\ r.token \in Tokens =>
                  rows[r.token].used = (\E k \in Steps(r, "lookup") : r.log[k].used)

\* The parts of C15 that hold: no interaction is answered twice, and one that
\* ends without a response has written nothing.
C15_NeverTwiceNoWriteOnCrash ==
    \A r \in Interactions :
        /\ Len(r.resp) <= 1
        /\ r.pc = "crashed" => r.resp = <<>> /\ Steps(r, "update") = {}

C17_TempFileDeleted ==
    \A r \in Uploads : Over(r) => r.disk # "stored"

\* The part of C17 that holds: a request that got as far as recording the
\* path of its temp file deletes the file on every exit path.
C17_RecordedTempFileDeleted ==
    \A r \in Uploads : Over(r) /\ r.tempPath => r.disk = "deleted"

\* The steps of the request at whose end it sent a webhook post: the step
\* before each post step of the log, and the last step while a post is out.
SentPostAt(r) ==
    { k \in DOMAIN r.log :
        \/ k < Len(r.log) /\ r.log[k + 1].op = "post"
        \/ k = Len(r.log) /\ r.pc \in {"post", "post2"} }

\* C18: no upload handler posts to the webhook or sets submitted/ai_status
\* for a token whose row has used=true at the moment of that post or update,
\* also when an approve or deny of the token runs concurrently.
C18_NoSubmissionOnDecided ==
    \A r \in Uploads :
        /\ \A k \in SentPostAt(r) : ~r.log[k].used
        /\ \A k \in Steps(r, "update") : ~r.log[k].used

\* C18 for one request at a time: the row was not used when the request
\* looked it up.
C18_NoSubmissionAfterUsedLookup ==
    \A r \in Uploads :
        Steps(r, "post") \cup Steps(r, "update") # {} =>
            \E k \in Steps(r, "lookup") : r.log[k].ok /\ ~r.log[k].used

\* What the world did at a step: the kind of step, the status answered and
\* whether the call succeeded.
World(e) == [op |-> e.op, code |-> e.code, ok |-> e.ok]

\* Two requests met the same world as far as both went.
SameWorld(ra, rb) ==
    \A k \in DOMAIN ra.log \cap DOMAIN rb.log : World(ra.log[k]) = World(rb.log[k])

\* The same click on the buttons of the two tokens, handled by the same
\* variant.
SameClick(ra, rb) ==
    /\ IsInteract(ra) /\ IsInteract(rb) /\ ra.v = rb.v
    /\ ra.token = ExpiredToken /\ rb.token = FreshToken
    /\ ra.action = rb.action /\ ra.staff = rb.staff
    /\ ra.in.body.roles = rb.in.body.roles

\* The token of the request was expired, or not yet, whenever it was looked up.
LookedUpExpired(r) ==
    \A k \in Steps(r, "lookup") : NowAfter(r.log[k].at, getTime(rows[r.token].expires_at))
LookedUpFresh(r) ==
    \A k \in Steps(r, "lookup") : ~NowAfter(r.log[k].at, getTime(rows[r.token].expires_at))

\* The decision columns of a row, the time of the decision aside.
Decided(t) ==
    [ used |-> rows[t].used, decision |-> rows[t].decision,
      decided |-> rows[t].decided_at # NULL, decided_by |-> rows[t].decided_by ]

\* C19: the staff decision does not depend on expiry: for rows with
\* used=false that differ in expires_at alone, one in the past and one in the
\* future, the same approve or deny by staff meeting the same answers of the
\* database and the role API takes the same steps, gets the same reply and
\* leaves the same decision on the row.
C19_DecisionIgnoresExpiry ==
    \A sa, sb \in Slots :
        LET ra == req[sa]
            rb == req[sb]
        IN  SameClick(ra, rb) /\ Over(ra) /\ Over(rb) /\ SameWorld(ra, rb) =>
                /\ LookedUpExpired(ra) /\ LookedUpFresh(rb)
                /\ ra.pc = rb.pc
                /\ ra.resp = rb.resp
                /\ Len(ra.log) = Len(rb.log)
                /\ Decided(ra.token) = Decided(rb.token)

\* An expired token was approved and its roles granted, as a token that had
\* not expired was.
C19_Witness ==
    \E sa, sb \in Slots :
        LET ra == req[sa]
            rb == req[sb]
        IN  /\ SameClick(ra, rb) /\ Over(ra) /\ Over(rb) /\ SameWorld(ra, rb)
            /\ ra.action = "approve"
            /\ Steps(ra, "lookup") # {} /\ LookedUpExpired(ra)
            /\ \A k \in Steps(ra, "grant") : ra.log[k].ok
            /\ Cardinality(Steps(ra, "grant")) = 2
            /\ ra.resp = <<Response(200, 7, "APPROVED")>>
            /\ rows[ExpiredToken].used /\ rows[ExpiredToken].decision = "approved"

====
